---- MODULE Spec2Model ----
(***************************************************************************)
(* State-machine model of WebSocketVoiceManager (the continuous-queue      *)
(* voice-streaming client) and of the connect button of SmartSchedulerApp. *)
(* Every handler runs to completion up to its first await; the awaits of   *)
(* playAudioQueue (decodeAudioData, the onended promise of playAudioBuffer *)
(* and the 50 ms poll timer) are the suspension points of a loop.          *)
(***************************************************************************)
EXTENDS Integers, Sequences, FiniteSets, TLC

\* Bounds of the model.
MaxFrames == 3      \* audio frames the server sends in one run
MaxSockets == 2     \* WebSockets connect() may create in one run
MaxClock == 2       \* distinct readings of Date.now()

FrameIds == 1..MaxFrames
SockIds == 1..MaxSockets
Clock == 1..MaxClock

VARIABLES
    ws,                 \* this.ws: 0 (null) or the id of a socket
    sock,               \* readyState of every socket id
    isConnected,        \* this.isConnected
    recorder,           \* this.mediaRecorder: "uninit", "null", "inactive", "recording"
    pendingData,        \* a final dataavailable event is queued after stop()
    audioQueue,         \* this.audioQueue: frame ids, head first
    isPlayingAudio,     \* this.isPlayingAudio
    currentAudioSource, \* this.currentAudioSource: 0 (null) or a source id
    streamingComplete,  \* this.streamingComplete
    isUserSpeaking,     \* this.isUserSpeaking
    lastSpeechEndTime,  \* this.lastSpeechEndTime: 0 (null) or a clock reading
    responseStartTime,  \* this.responseStartTime: 0 (null) or a clock reading
    frames,             \* observer: per received frame, whether it arrived after
                        \* `interrupted` and before the next `audio_start`
    loopPc,             \* the await every playAudioQueue invocation is suspended in:
                        \* "decode", "play", "poll", or "none" (not running)
    loopFrame,          \* the frame a loop is decoding or playing
    srcState,           \* state of the AudioBufferSource made from each frame
    thinkingShown,      \* the #thinkingIndicator element exists
    played,             \* observer: frames in the order their sources were started
    stopMark,           \* observer: number of frames received at the last stopAudioPlayback
    awaitingStart,      \* observer: `interrupted` handled and no `audio_start` since
    sink,               \* observer of the UI sink in scripted runs: tallies of the
                        \* transcript and thinking notifications, last status text
    script,             \* position in the scripted event sequence (0: unscripted server)
    last,               \* observer: the handler that ran last
    emitted             \* observer: log records and UI notifications of the last handler

vars == << ws, sock, isConnected, recorder, pendingData, audioQueue, isPlayingAudio,
           currentAudioSource, streamingComplete, isUserSpeaking, lastSpeechEndTime,
           responseStartTime, frames, loopPc, loopFrame, srcState,
           thinkingShown, played, stopMark, awaitingStart, sink, script, last, emitted >>

connVars == << ws, sock, isConnected >>
recVars == << recorder, pendingData >>
playVars == << audioQueue, isPlayingAudio, currentAudioSource, streamingComplete,
               loopPc, loopFrame, srcState, played, stopMark >>
uiVars == << thinkingShown, sink >>
turnVars == << isUserSpeaking, lastSpeechEndTime, responseStartTime >>

\* The UI-sink tally is kept in scripted runs only (script > 0).
Inc(n) == IF script > 0 THEN n + 1 ELSE n
Shown(text) == IF script > 0 THEN text ELSE ""

\* The loop (invocation of playAudioQueue) started by the arrival of frame f has id f;
\* the AudioBufferSource made from frame f has id f; 0 stands for null / no frame.

\* this.audioContext is created by initialize() together with the recorder.
hasAudioContext == recorder \notin {"uninit", "null"}

----------------------------------------------------------------------------
\* One pass of `while (true)` in playAudioQueue, run from the loop's resumption to
\* its next await: with a non-empty queue the head is shifted and decodeAudioData
\* awaited (with no AudioContext the call throws inside the inner try, the catch
\* logs it and the loop goes on with the next frame, so the queue drains); with an
\* empty queue the loop breaks if streamingComplete and otherwise awaits the timer.
NoBreakOnComplete(q) ==
    IF hasAudioContext /\ q # << >> THEN "decode" ELSE "poll"
ExitOnEmptyQueue(q) ==
    IF hasAudioContext /\ q # << >> THEN "decode" ELSE "none"
LoopNextPc(q) ==
    IF hasAudioContext /\ q # << >> THEN "decode"
    ELSE IF streamingComplete THEN "none" ELSE "poll"
LoopNextFrame(q) ==
    IF hasAudioContext /\ q # << >> THEN Head(q) ELSE 0
PeekInsteadOfShift(q) ==
    IF hasAudioContext THEN q ELSE << >>
LoopNextQueue(q) ==
    IF q = << >> THEN q ELSE IF hasAudioContext THEN Tail(q) ELSE << >>
LoopLogs(q) ==
    IF ~hasAudioContext /\ q # << >> THEN {"log:decode_error"} ELSE {}

\* The rest of playAudioQueue after a resumption of loop l with queue q: the next
\* pass, and `finally { this.isPlayingAudio = false }` when the loop breaks.
ResumeLoop(l, q) ==
    /\ loopPc' = [loopPc EXCEPT ![l] = LoopNextPc(q)]
    /\ loopFrame' = [loopFrame EXCEPT ![l] = LoopNextFrame(q)]
    /\ audioQueue' = LoopNextQueue(q)
    /\ isPlayingAudio' = IF LoopNextPc(q) = "none" THEN FALSE ELSE isPlayingAudio

\* The playback fields of the manager and the sources, as one value.
PlaybackState ==
    [src |-> srcState, cur |-> currentAudioSource, queue |-> audioQueue,
     complete |-> streamingComplete, playing |-> isPlayingAudio]

\* stopAudioPlayback() on playback state p: stop() the current source and forget
\* it, clear the queue, set streamingComplete, clear isPlayingAudio.
AfterStop(p) ==
    [src |-> [s \in FrameIds |->
                IF s = p.cur /\ p.src[s] = "playing" THEN "stopped" ELSE p.src[s]],
     cur |-> 0, queue |-> << >>, complete |-> TRUE, playing |-> FALSE]

stopAudioPlayback ==
    LET p == AfterStop(PlaybackState)
    IN  /\ srcState' = p.src
        /\ currentAudioSource' = p.cur
        /\ audioQueue' = p.queue
        /\ streamingComplete' = p.complete
        /\ isPlayingAudio' = p.playing
        /\ stopMark' = Len(frames)
        /\ UNCHANGED << loopPc, loopFrame, played >>

\* The recorder and its queued final dataavailable event, as one value.
CaptureState == [rec |-> recorder, pending |-> pendingData]

\* stopRecording() on capture state c: stop() a recording recorder (a final
\* dataavailable follows); nothing when the recorder is absent or not recording.
StopToggles(c) ==
    IF c.rec = "recording" THEN [rec |-> "inactive", pending |-> TRUE]
    ELSE IF c.rec = "inactive" THEN [c EXCEPT !.rec = "recording"] ELSE c
AfterStopRecording(c) ==
    IF c.rec = "recording" THEN [rec |-> "inactive", pending |-> TRUE] ELSE c

\* startRecording() on capture state c: start(100) unless absent or recording.
AfterStartRecording(c) ==
    IF c.rec \in {"uninit", "null", "recording"} THEN c ELSE [c EXCEPT !.rec = "recording"]

stopRecording ==
    LET c == AfterStopRecording(CaptureState)
    IN  recorder' = c.rec /\ pendingData' = c.pending

startRecording ==
    LET c == AfterStartRecording(CaptureState)
    IN  recorder' = c.rec /\ pendingData' = c.pending

\* hideThinking(): remove the indicator when it exists.
hideThinking ==
    /\ thinkingShown' = FALSE
    /\ sink' = IF thinkingShown
               THEN [sink EXCEPT !.thinkingEnds = Inc(sink.thinkingEnds)] ELSE sink

Note(op, id, out) ==
    /\ last' = [op |-> op, id |-> id]
    /\ emitted' = out

----------------------------------------------------------------------------
Init ==
    /\ ws = 0
    /\ sock = [s \in SockIds |-> "none"]
    /\ isConnected = FALSE
    /\ recorder = "uninit"
    /\ pendingData = FALSE
    /\ audioQueue = << >>
    /\ isPlayingAudio = FALSE
    /\ currentAudioSource = 0
    /\ streamingComplete = FALSE
    /\ isUserSpeaking = FALSE
    /\ lastSpeechEndTime = 0
    /\ responseStartTime = 0
    /\ frames = << >>
    /\ loopPc = [l \in FrameIds |-> "none"]
    /\ loopFrame = [l \in FrameIds |-> 0]
    /\ srcState = [s \in FrameIds |-> "none"]
    /\ thinkingShown = FALSE
    /\ played = << >>
    /\ stopMark = 0
    /\ awaitingStart = FALSE
    /\ sink = [finalTranscripts |-> 0, thinkingStarts |-> 0, thinkingEnds |-> 0,
               status |-> ""]
    /\ script = 0
    /\ last = [op |-> "constructor", id |-> 0]
    /\ emitted = {}

----------------------------------------------------------------------------
\* initialize(): getUserMedia succeeds (recorder and AudioContext are created) or
\* throws (both stay null, the error is shown).
InitializeSilent(ok) ==
    /\ recorder = "uninit"
    /\ recorder' = IF ok THEN "inactive" ELSE "null"
    /\ Note("initialize", 0, IF ok THEN {"log:audio_initialized"} ELSE {})
    /\ UNCHANGED << connVars, pendingData, playVars, uiVars, frames, awaitingStart, turnVars >>
initialize(ok) ==
    /\ recorder = "uninit"
    /\ recorder' = IF ok THEN "inactive" ELSE "null"
    /\ Note("initialize", 0, IF ok THEN {"log:audio_initialized"}
                             ELSE {"log:mic_denied", "error:mic"})
    /\ UNCHANGED << connVars, pendingData, playVars, uiVars, frames, awaitingStart, turnVars >>

\* The socket id `new WebSocket` returns: the first unused one.
FreeSocks == {s \in SockIds : sock[s] = "none"}
NewSock == CHOOSE s \in FreeSocks : \A t \in FreeSocks : s <= t

\* connect(): returns at once when isConnected; without a token shows an error;
\* otherwise creates a socket, stores it in this.ws and attaches the handlers.
ConnectAcquiresFirst(token) ==
    IF isConnected
    THEN UNCHANGED connVars /\ emitted' = {}
    ELSE /\ FreeSocks # {}
         /\ sock' = [sock EXCEPT ![NewSock] = "connecting"]
         /\ ws' = NewSock
         /\ UNCHANGED isConnected
         /\ emitted' = IF token THEN {"new WebSocket"}
                       ELSE {"log:connection_error", "error:Failed to connect"}
connect(token) ==
    IF isConnected
    THEN UNCHANGED connVars /\ emitted' = {}
    ELSE IF ~token
    THEN UNCHANGED connVars /\ emitted' = {"log:connection_error", "error:Failed to connect"}
    ELSE /\ FreeSocks # {}
         /\ sock' = [sock EXCEPT ![NewSock] = "connecting"]
         /\ ws' = NewSock
         /\ UNCHANGED isConnected
         /\ emitted' = {"new WebSocket"}

\* ws.close() moves a connecting or open socket to CLOSING.
Closed(st) == IF st \in {"connecting", "open"} THEN "closing" ELSE st

\* disconnect(): close and forget this.ws, stop capture, stop playback.
disconnect ==
    /\ sock' = IF ws # 0 THEN [sock EXCEPT ![ws] = Closed(sock[ws])] ELSE sock
    /\ ws' = 0
    /\ stopRecording
    /\ stopAudioPlayback
    /\ isConnected' = FALSE

\* connectBtn.onclick of SmartSchedulerApp.
ClickConnectBtn(token) ==
    /\ recorder # "uninit"
    /\ IF isConnected
       THEN /\ disconnect
            /\ Note("disconnect", 0, {"recordingUI:false", "log:stopping_playback"})
       ELSE /\ connect(token)
            /\ last' = [op |-> "connect", id |-> 0]
            /\ UNCHANGED << recVars, playVars >>
    /\ UNCHANGED << uiVars, frames, awaitingStart, turnVars >>

\* setupVoiceMode's timer calls connect() directly.
AutoConnect(token) ==
    /\ recorder # "uninit"
    /\ connect(token)
    /\ last' = [op |-> "connect", id |-> 0]
    /\ UNCHANGED << recVars, playVars, uiVars, frames, awaitingStart, turnVars >>

\* logoutBtn.onclick and cleanup() call disconnect() directly.
Logout ==
    /\ recorder # "uninit"
    /\ disconnect
    /\ Note("disconnect", 0, {"recordingUI:false", "log:stopping_playback"})
    /\ UNCHANGED << uiVars, frames, awaitingStart, turnVars >>

OnOpenNoCapture(s) ==
    /\ sock[s] = "connecting"
    /\ sock' = [sock EXCEPT ![s] = "open"]
    /\ isConnected' = TRUE
    /\ Note("onopen", s, {"connection:true"})
    /\ UNCHANGED << ws, recVars, playVars, uiVars, frames, awaitingStart, turnVars >>
\* ws.onopen of socket s.
OnOpen(s) ==
    /\ sock[s] = "connecting"
    /\ sock' = [sock EXCEPT ![s] = "open"]
    /\ isConnected' = TRUE
    /\ startRecording
    /\ Note("onopen", s, {"connection:true"} \cup
                         (IF recorder = "inactive" THEN {"recordingUI:true"} ELSE {}))
    /\ UNCHANGED << ws, playVars, uiVars, frames, awaitingStart, turnVars >>

\* ws.onerror of socket s.
OnError(s) ==
    /\ sock[s] \in {"connecting", "open", "closing"}
    /\ Note("onerror", s, {"log:ws_error", "error:Connection error"})
    /\ UNCHANGED << connVars, recVars, playVars, uiVars, frames, awaitingStart, turnVars >>

OnCloseReconnects(s) ==
    /\ sock[s] \in {"connecting", "open", "closing"}
    /\ sock' = IF FreeSocks # {}
               THEN [sock EXCEPT ![s] = "closed", ![NewSock] = "connecting"]
               ELSE [sock EXCEPT ![s] = "closed"]
    /\ ws' = IF FreeSocks # {} THEN NewSock ELSE ws
    /\ isConnected' = FALSE
    /\ stopRecording
    /\ Note("onclose", s, {"connection:false", "recordingUI:false"})
    /\ UNCHANGED << playVars, uiVars, frames, awaitingStart, turnVars >>
\* ws.onclose of socket s (the close completes, or the connection drops).
OnClose(s) ==
    /\ sock[s] \in {"connecting", "open", "closing"}
    /\ sock' = [sock EXCEPT ![s] = "closed"]
    /\ isConnected' = FALSE
    /\ stopRecording
    /\ Note("onclose", s, {"connection:false", "recordingUI:false"})
    /\ UNCHANGED << ws, playVars, uiVars, frames, awaitingStart, turnVars >>

\* mediaRecorder.ondataavailable: a timeslice chunk while recording, or the final
\* chunk after stop(). ws.send throws on a null or still connecting this.ws.
ondataavailable(size, final) ==
    /\ IF final THEN pendingData ELSE recorder = "recording"
    /\ pendingData' = IF final THEN FALSE ELSE pendingData
    /\ Note("dataavailable", size,
            IF size > 0 /\ isConnected
            THEN IF ws = 0 \/ sock[ws] = "connecting" THEN {"exception"}
                 ELSE IF sock[ws] = "open" THEN {"ws.send"} ELSE {"ws.send:discarded"}
            ELSE {})
    /\ UNCHANGED << connVars, recorder, playVars, uiVars, frames, awaitingStart, turnVars >>

----------------------------------------------------------------------------
\* handleMessage(message): the switch on message.type. Every arm leaves the
\* connection and the recorder alone except `timeout`, which disconnects.
MessageTypes ==
    {"connected", "partial_transcript", "transcript", "thinking", "response_text",
     "audio_start", "latency_metric", "audio_complete", "interrupted", "ready",
     "error", "silence_warning", "timeout", "unknown"}

\* The fields the arms that read the clock or the latency fields work on.
TelemetryState ==
    [lset |-> lastSpeechEndTime, rst |-> responseStartTime, speaking |-> isUserSpeaking,
     queue |-> audioQueue, complete |-> streamingComplete]

\* The arms of handleMessage that call Date.now() or read a latency field.
TimedEvents == {"transcript", "audio_start", "latency_metric", "audio_complete", "ready"}

\* Those arms on telemetry state c, Date.now() returning `now`.
LatencyGatesReset(type, c, now) ==
    CASE type = "transcript" -> [c EXCEPT !.lset = now, !.speaking = FALSE]
      [] type = "audio_start" ->
            IF c.lset # 0 /\ now > c.lset
            THEN [c EXCEPT !.rst = now, !.complete = FALSE]
            ELSE [c EXCEPT !.rst = now, !.queue = << >>, !.complete = FALSE]
      [] type = "audio_complete" -> [c EXCEPT !.complete = TRUE]
      [] OTHER -> c
TimedState(type, c, now) ==
    CASE type = "transcript" -> [c EXCEPT !.lset = now, !.speaking = FALSE]
      [] type = "audio_start" -> [c EXCEPT !.rst = now, !.queue = << >>, !.complete = FALSE]
      [] type = "audio_complete" -> [c EXCEPT !.complete = TRUE]
      [] OTHER -> c

\* What those arms log: a latency when the field it is measured from is set.
TimedLogs(type, c) ==
    CASE type = "audio_start" -> IF c.lset # 0 THEN {"log:latency"} ELSE {}
      [] type = "audio_complete" -> IF c.rst # 0 THEN {"log:stream_duration"} ELSE {}
      [] type = "ready" -> IF c.lset # 0 THEN {"log:total_latency"} ELSE {}
      [] OTHER -> {}

\* showLatencyMetric(ttfa): the colour of the badge.
BadgeColor(ttfa) ==
    IF ttfa >= 2000 THEN "latency:red" ELSE IF ttfa >= 1000 THEN "latency:yellow"
    ELSE "latency:green"
TtfaValues == {500, 1500, 2500}

\* The telemetry state after a timed arm, written back to the fields.
SetTelemetry(r) ==
    /\ lastSpeechEndTime' = r.lset
    /\ responseStartTime' = r.rst
    /\ isUserSpeaking' = r.speaking
    /\ audioQueue' = r.queue
    /\ streamingComplete' = r.complete

TranscriptWithoutTimestamp ==
    /\ sink' = [sink EXCEPT !.finalTranscripts = Inc(sink.finalTranscripts)]
    /\ emitted' = {"message:user", "partial:cleared"}
    /\ UNCHANGED << connVars, recVars, playVars, thinkingShown, awaitingStart, turnVars >>
OnTranscript ==
    /\ \E now \in Clock : SetTelemetry(TimedState("transcript", TelemetryState, now))
    /\ sink' = [sink EXCEPT !.finalTranscripts = Inc(sink.finalTranscripts)]
    /\ emitted' = {"message:user", "partial:cleared"}
    /\ UNCHANGED << connVars, recVars, isPlayingAudio, currentAudioSource, loopPc,
                    loopFrame, srcState, played, stopMark, thinkingShown, awaitingStart >>

\* showThinking(): hideThinking(), then append a new indicator.
OnThinking ==
    /\ thinkingShown' = TRUE
    /\ sink' = [sink EXCEPT
                  !.thinkingEnds = IF thinkingShown THEN Inc(@) ELSE @,
                  !.thinkingStarts = Inc(@)]
    /\ emitted' = {"thinking:start"}
    /\ UNCHANGED << connVars, recVars, playVars, awaitingStart, turnVars >>

OnResponseText ==
    /\ hideThinking
    /\ emitted' = {"message:assistant"}
    /\ UNCHANGED << connVars, recVars, playVars, awaitingStart, turnVars >>

AudioStartKeepsQueue ==
    /\ \E now \in Clock : responseStartTime' = now
    /\ streamingComplete' = FALSE
    /\ awaitingStart' = FALSE
    /\ emitted' = {"log:ai_starting"} \cup TimedLogs("audio_start", TelemetryState)
    /\ UNCHANGED << connVars, recVars, audioQueue, isPlayingAudio, currentAudioSource,
                    loopPc, loopFrame, srcState, played, stopMark, uiVars,
                    isUserSpeaking, lastSpeechEndTime >>
OnAudioStart ==
    /\ \E now \in Clock : SetTelemetry(TimedState("audio_start", TelemetryState, now))
    /\ awaitingStart' = FALSE
    /\ emitted' = {"log:ai_starting"} \cup TimedLogs("audio_start", TelemetryState)
    /\ UNCHANGED << connVars, recVars, isPlayingAudio, currentAudioSource, loopPc,
                    loopFrame, srcState, played, stopMark, uiVars >>

AudioCompleteTruncates ==
    /\ streamingComplete' = TRUE
    /\ audioQueue' = << >>
    /\ emitted' = {"log:backend_done"}
    /\ UNCHANGED << connVars, recVars, isPlayingAudio, currentAudioSource,
                    loopPc, loopFrame, srcState, played, stopMark, uiVars, awaitingStart,
                    turnVars >>
AudioCompleteDropsTail ==
    /\ streamingComplete' = TRUE
    /\ audioQueue' = IF audioQueue = << >> THEN << >> ELSE << Head(audioQueue) >>
    /\ emitted' = {"log:backend_done"} \cup TimedLogs("audio_complete", TelemetryState)
    /\ UNCHANGED << connVars, recVars, isPlayingAudio, currentAudioSource,
                    loopPc, loopFrame, srcState, played, stopMark, uiVars, awaitingStart,
                    turnVars >>
OnAudioComplete ==
    /\ \E now \in Clock : SetTelemetry(TimedState("audio_complete", TelemetryState, now))
    /\ emitted' = {"log:backend_done"} \cup TimedLogs("audio_complete", TelemetryState)
    /\ UNCHANGED << connVars, recVars, isPlayingAudio, currentAudioSource,
                    loopPc, loopFrame, srcState, played, stopMark, uiVars, awaitingStart >>

InterruptedSuspendsMidway ==
    /\ srcState' = [s \in FrameIds |->
                      IF s = currentAudioSource /\ srcState[s] = "playing"
                      THEN "stopped" ELSE srcState[s]]
    /\ currentAudioSource' = 0
    /\ audioQueue' = << >>
    /\ stopMark' = Len(frames)
    /\ awaitingStart' = TRUE
    /\ emitted' = {"log:interrupted", "log:stopping_playback"}
    /\ UNCHANGED << connVars, recVars, streamingComplete, isPlayingAudio, loopPc,
                    loopFrame, played, uiVars, turnVars >>
OnInterrupted ==
    /\ stopAudioPlayback
    /\ thinkingShown' = FALSE
    /\ sink' = [sink EXCEPT !.thinkingEnds = IF thinkingShown THEN Inc(@) ELSE @,
                            !.status = Shown("Interrupted - listening...")]
    /\ awaitingStart' = TRUE
    /\ emitted' = {"log:interrupted", "log:stopping_playback", "status:Interrupted"}
    /\ UNCHANGED << connVars, recVars, turnVars >>

ErrorTearsDown ==
    /\ disconnect
    /\ sink' = [sink EXCEPT !.status = Shown("error")]
    /\ emitted' = {"error:server", "recordingUI:false", "log:stopping_playback"}
    /\ UNCHANGED << thinkingShown, awaitingStart, turnVars >>
OnErrorMessage ==
    /\ stopAudioPlayback
    /\ sink' = [sink EXCEPT !.status = Shown("error")]
    /\ emitted' = {"error:server", "log:stopping_playback"}
    /\ UNCHANGED << connVars, recVars, thinkingShown, awaitingStart, turnVars >>

TimeoutKeepsChannel ==
    /\ stopAudioPlayback
    /\ sink' = [sink EXCEPT !.status = Shown("error")]
    /\ emitted' = {"error:server", "log:stopping_playback"}
    /\ UNCHANGED << connVars, recVars, thinkingShown, awaitingStart, turnVars >>
OnTimeout ==
    /\ disconnect
    /\ sink' = [sink EXCEPT !.status = Shown("error")]
    /\ emitted' = {"error:server", "recordingUI:false", "log:stopping_playback"}
    /\ UNCHANGED << thinkingShown, awaitingStart, turnVars >>

\* The arms that only talk to the UI sink or the console.
NoticeResetsQueue(type) ==
    /\ emitted' = {"log:debug"}
    /\ audioQueue' = << >>
    /\ UNCHANGED << connVars, recVars, isPlayingAudio, currentAudioSource,
                    streamingComplete, loopPc, loopFrame, srcState, played, stopMark,
                    uiVars, awaitingStart, turnVars >>
OnNotice(type) ==
    /\ \E ttfa \in TtfaValues :
          emitted' = CASE type = "connected" -> {"status:Connected"}
                       [] type = "partial_transcript" -> {"partial:shown"}
                       [] type = "latency_metric" -> {"log:ttfa", BadgeColor(ttfa)}
                       [] type = "ready" ->
                             {"status:Ready"} \cup TimedLogs("ready", TelemetryState)
                       [] type = "silence_warning" -> {"warning:server"}
                       [] OTHER -> {"log:debug"}
    /\ sink' = CASE type = "connected" ->
                      [sink EXCEPT !.status = Shown("Connected! Start speaking...")]
                 [] type = "ready" -> [sink EXCEPT !.status = Shown("Ready")]
                 [] type = "silence_warning" -> [sink EXCEPT !.status = Shown("warning")]
                 [] OTHER -> sink
    /\ UNCHANGED << connVars, recVars, playVars, thinkingShown, awaitingStart, turnVars >>

handleMessage(type) ==
    CASE type = "transcript" -> OnTranscript
      [] type = "thinking" -> OnThinking
      [] type = "response_text" -> OnResponseText
      [] type = "audio_start" -> OnAudioStart
      [] type = "audio_complete" -> OnAudioComplete
      [] type = "interrupted" -> OnInterrupted
      [] type = "error" -> OnErrorMessage
      [] type = "timeout" -> OnTimeout
      [] OTHER -> OnNotice(type)

\* ws.onmessage with a string payload, on an open socket s.
OnTextMessage(s, type) ==
    /\ sock[s] = "open"
    /\ handleMessage(type)
    /\ last' = [op |-> type, id |-> 0]
    /\ UNCHANGED frames

----------------------------------------------------------------------------
ChunkClearsComplete ==
    LET f == Len(frames) + 1
    IN  /\ f <= MaxFrames
        /\ frames' = Append(frames, awaitingStart)
        /\ audioQueue' = Append(audioQueue, f)
        /\ streamingComplete' = FALSE
        /\ Note("audio_chunk", f, {"log:queued"})
        /\ UNCHANGED << connVars, recVars, isPlayingAudio, currentAudioSource, loopPc,
                        loopFrame, srcState, played, stopMark, uiVars, awaitingStart,
                        turnVars >>
\* handleAudioChunk(audioData): push the frame and start playAudioQueue unless
\* isPlayingAudio; the new loop runs to its first await within the handler.
handleAudioChunk ==
    LET f == Len(frames) + 1
        q == Append(audioQueue, f)
    IN  /\ f <= MaxFrames
        /\ frames' = Append(frames, awaitingStart)
        /\ IF isPlayingAudio
           THEN /\ audioQueue' = q
                /\ emitted' = {"log:queued"}
                /\ UNCHANGED << isPlayingAudio, loopPc, loopFrame >>
           ELSE /\ loopPc' = [loopPc EXCEPT ![f] = LoopNextPc(q)]
                /\ loopFrame' = [loopFrame EXCEPT ![f] = LoopNextFrame(q)]
                /\ audioQueue' = LoopNextQueue(q)
                /\ isPlayingAudio' = (LoopNextPc(q) # "none")
                /\ emitted' = {"log:queued", "log:loop_started"} \cup LoopLogs(q)
        /\ last' = [op |-> "audio_chunk", id |-> f]
        /\ UNCHANGED << connVars, recVars, currentAudioSource, streamingComplete,
                        srcState, played, stopMark, uiVars, awaitingStart, turnVars >>

\* ws.onmessage with a binary payload, on an open socket s.
OnBinaryMessage(s) ==
    /\ sock[s] = "open"
    /\ handleAudioChunk

\* decodeAudioData of loop l resolves: playAudioBuffer creates the source, stores
\* it in currentAudioSource and starts it; the loop awaits its onended.
DecodeResolved(l) ==
    /\ loopPc[l] = "decode"
    /\ srcState' = [srcState EXCEPT ![loopFrame[l]] = "playing"]
    /\ currentAudioSource' = loopFrame[l]
    /\ loopPc' = [loopPc EXCEPT ![l] = "play"]
    /\ played' = Append(played, loopFrame[l])
    /\ Note("decode_resolved", l, {"log:playing_chunk"})
    /\ UNCHANGED << connVars, recVars, audioQueue, isPlayingAudio, streamingComplete,
                    loopFrame, stopMark, uiVars, frames, awaitingStart, turnVars >>

DecodeAborts(l) ==
    /\ loopPc[l] = "decode"
    /\ loopPc' = [loopPc EXCEPT ![l] = "none"]
    /\ loopFrame' = [loopFrame EXCEPT ![l] = 0]
    /\ isPlayingAudio' = FALSE
    /\ Note("decode_rejected", l, {"log:playback_error"})
    /\ UNCHANGED << connVars, recVars, audioQueue, currentAudioSource, streamingComplete,
                    srcState, played, stopMark, uiVars, frames, awaitingStart, turnVars >>
\* decodeAudioData of loop l rejects: the inner catch logs it and the loop goes on.
DecodeRejected(l) ==
    /\ loopPc[l] = "decode"
    /\ ResumeLoop(l, audioQueue)
    /\ Note("decode_rejected", l, {"log:decode_error"})
    /\ UNCHANGED << connVars, recVars, currentAudioSource, streamingComplete, srcState,
                    played, stopMark, uiVars, frames, awaitingStart, turnVars >>

\* source.onended of source s (it played to its end, or stop() was called on it):
\* currentAudioSource is cleared and the loop awaiting the source resumes.
OnEnded(s) ==
    /\ srcState[s] \in {"playing", "stopped"}
    /\ srcState' = [srcState EXCEPT ![s] = "ended"]
    /\ currentAudioSource' = 0
    /\ \E l \in FrameIds :
          /\ loopPc[l] = "play" /\ loopFrame[l] = s
          /\ ResumeLoop(l, audioQueue)
          /\ last' = [op |-> "onended", id |-> l]
    /\ emitted' = {}
    /\ UNCHANGED << connVars, recVars, streamingComplete, played, stopMark, uiVars,
                    frames, awaitingStart, turnVars >>

\* The 50 ms timer of loop l fires.
PollTimer(l) ==
    /\ loopPc[l] = "poll"
    /\ ResumeLoop(l, audioQueue)
    /\ Note("poll", l, {})
    /\ UNCHANGED << connVars, recVars, currentAudioSource, streamingComplete, srcState,
                    played, stopMark, uiVars, frames, awaitingStart, turnVars >>

----------------------------------------------------------------------------
\* The whole program: every handler and callback, with an unscripted server.
Next ==
    /\ UNCHANGED script
    /\ \/ \E ok \in BOOLEAN : initialize(ok)
       \/ \E token \in BOOLEAN : ClickConnectBtn(token)
       \/ \E token \in BOOLEAN : AutoConnect(token)
       \/ Logout
       \/ \E s \in SockIds : OnOpen(s)
       \/ \E s \in SockIds : OnError(s)
       \/ \E s \in SockIds : OnClose(s)
       \/ \E size \in 0..1, final \in BOOLEAN : ondataavailable(size, final)
       \/ \E s \in SockIds, type \in MessageTypes : OnTextMessage(s, type)
       \/ \E s \in SockIds : OnBinaryMessage(s)
       \/ \E l \in FrameIds : DecodeResolved(l)
       \/ \E l \in FrameIds : DecodeRejected(l)
       \/ \E s \in FrameIds : OnEnded(s)
       \/ \E l \in FrameIds : PollTimer(l)

\* An established session: initialize() has run (with or without a microphone),
\* connect() has created socket 1 and its onopen has run.
Established ==
    /\ ws = 1
    /\ sock = [s \in SockIds |-> IF s = 1 THEN "open" ELSE "none"]
    /\ isConnected = TRUE
    /\ recorder \in {"recording", "null"}
    /\ pendingData = FALSE
    /\ audioQueue = << >>
    /\ isPlayingAudio = FALSE
    /\ currentAudioSource = 0
    /\ streamingComplete = FALSE
    /\ isUserSpeaking = FALSE
    /\ lastSpeechEndTime = 0
    /\ responseStartTime = 0
    /\ frames = << >>
    /\ loopPc = [l \in FrameIds |-> "none"]
    /\ loopFrame = [l \in FrameIds |-> 0]
    /\ srcState = [s \in FrameIds |-> "none"]
    /\ thinkingShown = FALSE
    /\ played = << >>
    /\ stopMark = 0
    /\ awaitingStart = FALSE
    /\ sink = [finalTranscripts |-> 0, thinkingStarts |-> 0, thinkingEnds |-> 0,
               status |-> ""]
    /\ last = [op |-> "onopen", id |-> 1]
    /\ emitted = {"connection:true"} \cup
                 (IF recorder = "recording" THEN {"recordingUI:true"} ELSE {})

InitSession == Established /\ script = 0

\* The control events that act on the Playback Engine.
PlaybackEvents == {"audio_start", "audio_complete", "interrupted", "error", "timeout"}

\* The playback of one session, from its establishment to its teardown: control
\* events and frames of the server, the loop's completions, disconnect().
NextPlayback ==
    /\ UNCHANGED script
    /\ \/ \E s \in SockIds, type \in PlaybackEvents : OnTextMessage(s, type)
       \/ \E s \in SockIds : OnBinaryMessage(s)
       \/ \E l \in FrameIds : DecodeResolved(l)
       \/ \E l \in FrameIds : DecodeRejected(l)
       \/ \E s \in FrameIds : OnEnded(s)
       \/ \E l \in FrameIds : PollTimer(l)
       \/ Logout

Spec == InitSession /\ [][NextPlayback]_vars

\* The connection and the capture of a client, with a server that sends control
\* events and no audio.
NextConn ==
    /\ UNCHANGED script
    /\ \/ \E ok \in BOOLEAN : initialize(ok)
       \/ \E token \in BOOLEAN : ClickConnectBtn(token)
       \/ \E token \in BOOLEAN : AutoConnect(token)
       \/ Logout
       \/ \E s \in SockIds : OnOpen(s)
       \/ \E s \in SockIds : OnError(s)
       \/ \E s \in SockIds : OnClose(s)
       \/ \E size \in 0..1, final \in BOOLEAN : ondataavailable(size, final)
       \/ \E s \in SockIds, type \in MessageTypes : OnTextMessage(s, type)

SpecConn == Init /\ [][NextConn]_vars

\* The whole program from its construction.
SpecProgram == Init /\ [][Next]_vars

\* The events that end, or are claimed not to end, a session.
SessionEvents ==
    {"audio_start", "audio_complete", "error", "silence_warning", "timeout",
     "latency_metric", "unknown"}

\* One established session with its capture and its transport: the server's
\* events and frames, the loop's completions, the recorder's chunks, and the
\* failure or closure of the socket.
NextSession ==
    /\ UNCHANGED script
    /\ \/ \E s \in SockIds, type \in SessionEvents : OnTextMessage(s, type)
       \/ \E s \in SockIds : OnBinaryMessage(s)
       \/ \E l \in FrameIds : DecodeResolved(l)
       \/ \E l \in FrameIds : DecodeRejected(l)
       \/ \E s \in FrameIds : OnEnded(s)
       \/ \E l \in FrameIds : PollTimer(l)
       \/ \E size \in 0..1, final \in BOOLEAN : ondataavailable(size, final)
       \/ \E s \in SockIds : OnError(s)
       \/ \E s \in SockIds : OnClose(s)

SpecSession == InitSession /\ [][NextSession]_vars

\* The latency instrumentation of one session: the events whose arms read the
\* clock or a latency field, the frames, and the loop playing them.
NextTelemetry ==
    /\ UNCHANGED script
    /\ \/ \E s \in SockIds, type \in TimedEvents : OnTextMessage(s, type)
       \/ \E s \in SockIds : OnBinaryMessage(s)
       \/ \E l \in FrameIds : DecodeResolved(l)
       \/ \E s \in FrameIds : OnEnded(s)
       \/ \E l \in FrameIds : PollTimer(l)

SpecTelemetry == InitSession /\ [][NextTelemetry]_vars

\* The playback of a session whose socket may close under it: the browser
\* eventually settles every decodeAudioData promise, fires onended for every
\* started or stopped source, and fires every armed timer.
LiveEvents == {"audio_start", "audio_complete", "error"}

NextLive ==
    /\ UNCHANGED script
    /\ \/ \E s \in SockIds, type \in LiveEvents : OnTextMessage(s, type)
       \/ \E s \in SockIds : OnBinaryMessage(s)
       \/ \E l \in FrameIds : DecodeResolved(l)
       \/ \E l \in FrameIds : DecodeRejected(l)
       \/ \E s \in FrameIds : OnEnded(s)
       \/ \E l \in FrameIds : PollTimer(l)
       \/ \E s \in SockIds : OnClose(s)

LoopFairness ==
    \A l \in FrameIds :
       /\ WF_vars(UNCHANGED script /\ (DecodeResolved(l) \/ DecodeRejected(l)))
       /\ WF_vars(UNCHANGED script /\ OnEnded(l))
       /\ WF_vars(UNCHANGED script /\ PollTimer(l))

SpecLive == InitSession /\ [][NextLive]_vars /\ LoopFairness

----------------------------------------------------------------------------
\* Scripted servers: the session is established with a microphone, the server
\* sends the events of a scenario in order ("frame" is a binary message), and the
\* loop's completions and the recorder's chunks interleave freely with them.
ScenarioA ==
    << "connected", "partial_transcript", "transcript", "thinking", "audio_start",
       "frame", "frame", "frame", "audio_complete", "ready" >>
ScenarioB == << "audio_start", "frame", "frame", "interrupted", "frame" >>

InitScripted == Established /\ recorder = "recording" /\ script = 1

Deliver(scenario) ==
    /\ script <= Len(scenario)
    /\ script' = script + 1
    /\ IF scenario[script] = "frame"
       THEN OnBinaryMessage(1)
       ELSE OnTextMessage(1, scenario[script])

\* Scenario A: every frame is decodable.
NextA ==
    \/ Deliver(ScenarioA)
    \/ UNCHANGED script /\ \E l \in FrameIds : DecodeResolved(l)
    \/ UNCHANGED script /\ \E s \in FrameIds : OnEnded(s)
    \/ UNCHANGED script /\ \E l \in FrameIds : PollTimer(l)
    \/ UNCHANGED script /\ \E size \in 0..1 : ondataavailable(size, FALSE)

SpecA == InitScripted /\ [][NextA]_vars

NextB ==
    \/ Deliver(ScenarioB)
    \/ UNCHANGED script /\ \E l \in FrameIds : DecodeResolved(l)
    \/ UNCHANGED script /\ \E l \in FrameIds : DecodeRejected(l)
    \/ UNCHANGED script /\ \E s \in FrameIds : OnEnded(s)
    \/ UNCHANGED script /\ \E l \in FrameIds : PollTimer(l)
    \/ UNCHANGED script /\ \E size \in 0..1 : ondataavailable(size, FALSE)

SpecB == InitScripted /\ [][NextB]_vars

----------------------------------------------------------------------------
\* Vocabulary of the claims.
Audible == {s \in FrameIds : srcState[s] = "playing"}
Starts(f) == srcState[f] = "none" /\ srcState'[f] = "playing"
Alive(l) == loopPc[l] # "none"
\* Frame f has been handed to decodeAudioData (and, decoded, to playAudioBuffer).
Decoded(f) ==
    \/ srcState[f] # "none"
    \/ \E l \in FrameIds : loopPc[l] \in {"decode", "play"} /\ loopFrame[l] = f
PlayedSet == {played[i] : i \in 1..Len(played)}

\* C1: after stopAudioPlayback() has returned, no source is started for a frame
\* that had been received before the call (queued, or dequeued and in decode).
C1_NoPlayAfterStop ==
    [][\A f \in FrameIds : Starts(f) => f > stopMark]_vars

\* C2: at most one started source is audible (started, not ended, not stopped).
C2_AtMostOneAudible == Cardinality(Audible) <= 1

\* C3: units start in arrival order, each after the earlier ones have finished:
\* when the source of frame b starts, every frame started so far arrived before b
\* and is no longer playing.
C3_ArrivalOrder ==
    [][\A b \in FrameIds :
          Starts(b) => \A a \in PlayedSet : a < b /\ srcState[a] # "playing"]_vars

\* C4 (Scenario B): audioQueue is empty when the `interrupted` handler returns, and
\* a frame received after `interrupted` and before the next `audio_start` is never
\* decoded or played.
C4_ScenarioB ==
    /\ last.op = "interrupted" => audioQueue = << >>
    /\ \A f \in 1..Len(frames) : frames[f] => ~Decoded(f)

\* C5: from every reachable state, stopAudioPlayback() leaves currentAudioSource
\* null, the queue empty, streamingComplete true, isPlayingAudio false and nothing
\* audible, and a second call changes nothing.
C5_StopIdempotent ==
    LET once == AfterStop(PlaybackState)
    IN  /\ AfterStop(once) = once
        /\ once.cur = 0 /\ once.queue = << >> /\ once.complete /\ ~once.playing
        /\ \A s \in FrameIds : once.src[s] # "playing"

\* C6: `audio_complete` itself ends no loop, and a loop that reaches its check of
\* the queue (poll timer, end of a unit, failed decode) with streamingComplete set
\* and the queue empty exits there: it does not arm another poll.
AtCheck(l) ==
    \/ PollTimer(l)
    \/ DecodeRejected(l)
    \/ loopPc[l] = "play" /\ OnEnded(loopFrame[l])
C6_ExitAfterComplete ==
    [][/\ \A l \in FrameIds :
            (AtCheck(l) /\ streamingComplete /\ audioQueue = << >>)
               => (loopPc'[l] = "none" /\ ~isPlayingAudio')
       /\ last'.op = "audio_complete"
            => (loopPc' = loopPc /\ isPlayingAudio' = isPlayingAudio
                /\ streamingComplete')]_vars
\* A loop that was polling has exited at a timer wake-up, `audio_complete` (and no
\* stopAudioPlayback) having set the flag.
C6_Witness ==
    /\ last.op = "poll" /\ loopPc[last.id] = "none"
    /\ streamingComplete /\ stopMark = 0 /\ ~isPlayingAudio /\ Len(played) >= 1

\* The script of scenario A is delivered and nothing of the playback is pending.
ScenarioADone ==
    /\ script > Len(ScenarioA)
    /\ \A l \in FrameIds : loopPc[l] = "none"
    /\ \A s \in FrameIds : srcState[s] \notin {"playing", "stopped"}

C8_DecodeFailureSkipped ==
    [][\A l \in FrameIds :
          (DecodeRejected(l) /\ audioQueue # << >>)
             => /\ loopPc'[l] = "decode"
                /\ loopFrame'[l] = Head(audioQueue)
                /\ audioQueue' = Tail(audioQueue)
                /\ isPlayingAudio /\ isPlayingAudio']_vars
C8_Witness ==
    /\ last.op = "decode_rejected" /\ loopPc[last.id] = "decode"
    /\ isPlayingAudio /\ audioQueue # << >>

\* C9 (Scenario C): a chunk offered while isConnected is false is not sent, raises
\* no exception, and the NotConnected condition is recorded.
C9_DropRecorded ==
    (last.op = "dataavailable" /\ last.id > 0 /\ ~isConnected)
       => /\ emitted \cap {"ws.send", "ws.send:discarded", "exception"} = {}
          /\ emitted \cap {"log:not_connected", "error:not_connected"} # {}

\* C10: at most one socket created by connect() is connecting or open.
LiveSocks == {s \in SockIds : sock[s] \in {"connecting", "open"}}
C10_OneLiveSocket == Cardinality(LiveSocks) <= 1

----------------------------------------------------------------------------
\* A step of disconnect() called by the application (button, logout, cleanup).
IsDisconnect == last'.op = "disconnect"

\* C11: from every reachable state, when disconnect() returns the socket that was
\* this.ws has been closed, this.ws is null, isConnected is false, the recorder is
\* not recording, audioQueue is empty and no playback unit is audible.
C11_DisconnectTearsDown ==
    [][IsDisconnect =>
          /\ ws' = 0
          /\ (ws # 0 => sock'[ws] \in {"closing", "closed"})
          /\ ~isConnected'
          /\ recorder' # "recording"
          /\ audioQueue' = << >>
          /\ \A s \in FrameIds : srcState'[s] # "playing"]_vars

\* A step of connect() without a token that passes the isConnected guard.
ConnectWithoutToken == ~isConnected /\ (AutoConnect(FALSE) \/ ClickConnectBtn(FALSE))

\* C12: connect() without a credential creates no WebSocket, leaves this.ws,
\* isConnected (false) and the recorder as they were, and shows the failure as an
\* error instead of throwing it.
C12_NoTokenNoResource ==
    [][ConnectWithoutToken =>
          /\ sock' = sock /\ ws' = ws
          /\ ~isConnected'
          /\ recorder' = recorder /\ pendingData' = pendingData
          /\ "error:Failed to connect" \in emitted'
          /\ emitted' \cap {"new WebSocket", "exception"} = {}]_vars
C12_Witness ==
    /\ last.op = "connect" /\ "error:Failed to connect" \in emitted
    /\ ~isConnected /\ recorder = "inactive" /\ sock = [s \in SockIds |-> "none"]

\* C13: when onopen returns, isConnected is true, onConnectionChange(true) has been
\* called and the recorder, if there is one, is recording.
C13_OpenStartsCapture ==
    last.op = "onopen" =>
       /\ isConnected
       /\ sock[last.id] = "open"
       /\ "connection:true" \in emitted
       /\ (recorder # "null" => recorder = "recording")
C13_Witness ==
    /\ last.op = "onopen" /\ recorder = "recording" /\ isConnected
    /\ "recordingUI:true" \in emitted

\* C14: when the socket fails or closes without disconnect(), capture is stopped,
\* playback is stopped (nothing audible, queue empty, no loop running), isConnected
\* is false and onConnectionChange(false) has been called.
C14_CloseTearsDown ==
    last.op = "onclose" =>
       /\ ~isConnected
       /\ recorder # "recording"
       /\ "connection:false" \in emitted
       /\ audioQueue = << >>
       /\ \A s \in FrameIds : srcState[s] # "playing"
       /\ \A l \in FrameIds : loopPc[l] = "none"

\* C15: the `timeout` handler shows the message as an error and leaves the state
\* disconnect() leaves: this.ws closed and null, isConnected false, the recorder
\* stopped, the playback fields as stopAudioPlayback() sets them.
C15_TimeoutDisconnects ==
    [][last'.op = "timeout" =>
          /\ "error:server" \in emitted'
          /\ ws' = 0
          /\ sock' = (IF ws # 0 THEN [sock EXCEPT ![ws] = Closed(sock[ws])] ELSE sock)
          /\ ~isConnected'
          /\ [rec |-> recorder', pending |-> pendingData'] = AfterStopRecording(CaptureState)
          /\ recorder' # "recording"
          /\ [src |-> srcState', cur |-> currentAudioSource', queue |-> audioQueue',
              complete |-> streamingComplete', playing |-> isPlayingAudio']
                = AfterStop(PlaybackState)]_vars
C15_Witness ==
    /\ last.op = "timeout" /\ ws = 0 /\ sock[1] = "closing" /\ ~isConnected
    /\ recorder = "inactive" /\ pendingData
    /\ \E s \in FrameIds : srcState[s] = "stopped"

\* C16: isConnected is cleared only by the socket's closure, a `timeout` or
\* disconnect(); an `error` event stops playback and shows the error, and it, a
\* `silence_warning` and a failed decode leave this.ws, the socket, isConnected and
\* the recorder as they were.
C16_OnlyTimeoutAndTransportTearDown ==
    [][/\ (isConnected /\ ~isConnected') => last'.op \in {"onclose", "timeout", "disconnect"}
       /\ last'.op \in {"error", "silence_warning", "decode_rejected"}
            => (connVars' = connVars /\ recVars' = recVars)
       /\ last'.op = "error"
            => /\ "error:server" \in emitted'
               /\ audioQueue' = << >> /\ ~isPlayingAudio' /\ currentAudioSource' = 0]_vars
C16_Witness ==
    /\ last.op = "error" /\ isConnected /\ sock[1] = "open" /\ recorder = "recording"
    /\ \E s \in FrameIds : srcState[s] = "stopped"

\* C17: every non-empty chunk the recorder delivers while isConnected is true is
\* sent on the channel, whatever the playback state.
C17_CaptureUngated ==
    (last.op = "dataavailable" /\ last.id > 0 /\ isConnected) => emitted = {"ws.send"}

\* C18: stopRecording() changes nothing unless the recorder is recording, and a
\* second call changes nothing; startRecording() changes nothing when the recorder
\* is recording or absent.
C18_CaptureIdempotent ==
    LET c == CaptureState
        once == AfterStopRecording(c)
    IN  /\ AfterStopRecording(once) = once
        /\ once.rec # "recording"
        /\ (c.rec # "recording" => once = c)
        /\ (c.rec \in {"recording", "null", "uninit"} => AfterStartRecording(c) = c)
\* stopRecording() has run twice in a row on a recorder that exists: disconnect(),
\* then the onclose of the socket it closed.
C18_Witness ==
    /\ last.op = "onclose" /\ ws = 0 /\ recorder = "inactive" /\ ~isConnected

\* C19: a WebSocket is created only by a call of connect() from the application;
\* no handler of the manager creates one.
C19_NoAutoReconnect ==
    [][(\E s \in SockIds : sock[s] = "none" /\ sock'[s] # "none")
          => last'.op = "connect"]_vars
C19_Witness ==
    /\ last.op \in {"onclose", "timeout", "disconnect"}
    /\ \E s \in SockIds : sock[s] \in {"closing", "closed"}
    /\ LiveSocks = {} /\ FreeSocks # {}

\* C20: a failed initialize() shows an error and leaves no recorder; connect() then
\* still reaches the connected state, capture is never started, and no handler
\* throws.
C20_TextOnlySession ==
    /\ (last.op = "initialize" /\ recorder = "null") => "error:mic" \in emitted
    /\ recorder = "null" =>
          /\ "exception" \notin emitted
          /\ "recordingUI:true" \notin emitted
          /\ ~pendingData
          /\ (last.op = "onopen" => isConnected)
C20_Witness ==
    /\ recorder = "null" /\ isConnected /\ sock[ws] = "open"
    /\ last.op \in MessageTypes

----------------------------------------------------------------------------
QueueSet == {audioQueue[i] : i \in 1..Len(audioQueue)}
Exits(l) == loopPc[l] # "none" /\ loopPc'[l] = "none"
\* The handlers that discard queued frames on purpose.
Discarding == {"interrupted", "error", "timeout", "disconnect", "audio_start"}

\* C21: `audio_complete` sets the flag and leaves the queue, the loops and the
\* sources alone; apart from `interrupted`, `error`, `timeout`, disconnect() and
\* `audio_start`, a frame leaves the queue only as its head, taken by a loop into
\* decodeAudioData (every queued frame at once when there is no AudioContext to
\* decode with); a resolved decode is played; and a loop exits on an empty queue
\* only. So every frame queued at `audio_complete` is dequeued, and played if
\* decodable, before the loop exits.
C21_CompleteDoesNotTruncate ==
    [][/\ last'.op = "audio_complete"
            => /\ streamingComplete'
               /\ audioQueue' = audioQueue /\ loopPc' = loopPc
               /\ loopFrame' = loopFrame /\ srcState' = srcState
       /\ last'.op \notin Discarding
            => \/ audioQueue' = audioQueue
               \/ audioQueue' = Append(audioQueue, Len(frames'))
               \/ /\ audioQueue # << >> /\ audioQueue' = Tail(audioQueue)
                  /\ \E l \in FrameIds :
                        loopPc'[l] = "decode" /\ loopFrame'[l] = Head(audioQueue)
               \/ ~hasAudioContext /\ audioQueue' = << >>
       /\ \A l \in FrameIds :
             /\ DecodeResolved(l) => srcState'[loopFrame[l]] = "playing"
             /\ Exits(l) => audioQueue' = << >>]_vars
C21_Witness ==
    /\ last.op = "audio_complete" /\ Len(audioQueue) >= 2 /\ streamingComplete
    /\ stopMark = 0 /\ isPlayingAudio

\* C22: a loop leaves its while only with the queue empty and streamingComplete
\* set; at a check with the queue empty and the flag clear it arms the poll timer.
C22_ExitOnlyWhenDrainedAndComplete ==
    [][\A l \in FrameIds :
          /\ Exits(l) => (audioQueue' = << >> /\ streamingComplete /\ streamingComplete')
          /\ (AtCheck(l) /\ ~streamingComplete /\ audioQueue = << >>)
                => (loopPc'[l] = "poll" /\ isPlayingAudio' = isPlayingAudio)]_vars
C22_Witness ==
    /\ last.op = "onended" /\ loopPc[last.id] = "poll"
    /\ ~streamingComplete /\ audioQueue = << >> /\ isPlayingAudio

\* C23: at most one invocation of playAudioQueue is alive (suspended in decode,
\* in the wait for a unit's end, or in the poll).
LoopsAlive == {l \in FrameIds : Alive(l)}
C23_SingleLoop == Cardinality(LoopsAlive) <= 1

\* C24: when the `interrupted` handler returns no unit is audible, audioQueue is
\* empty and streamingComplete is set.
C24_InterruptHardStop ==
    last.op = "interrupted" =>
       /\ \A s \in FrameIds : srcState[s] # "playing"
       /\ audioQueue = << >>
       /\ streamingComplete

\* C25: `audio_start` stores the clock reading in responseStartTime, empties the
\* queue and clears streamingComplete; the frames it discards are in no loop, and
\* a loop takes a frame only from the queue or from the arrival that starts it, and
\* a source is started only for the frame a loop was decoding, so the discarded
\* frames are never played.
C25_AudioStartResets ==
    [][/\ last'.op = "audio_start"
            => /\ responseStartTime' \in Clock
               /\ audioQueue' = << >> /\ ~streamingComplete'
               /\ loopPc' = loopPc /\ loopFrame' = loopFrame /\ srcState' = srcState
               /\ \A f \in QueueSet, l \in FrameIds : loopFrame'[l] # f
       /\ \A l \in FrameIds :
             (loopFrame'[l] # loopFrame[l] /\ loopFrame'[l] # 0)
                => loopFrame'[l] \in QueueSet \cup {Len(frames')}
       /\ \A f \in FrameIds :
             Starts(f) => \E l \in FrameIds : loopPc[l] = "decode" /\ loopFrame[l] = f]_vars
\* `audio_start` has just discarded a queued frame of the turn before while a loop
\* is alive.
C25_Witness ==
    /\ last.op = "audio_start" /\ responseStartTime \in Clock
    /\ audioQueue = << >> /\ ~streamingComplete /\ isPlayingAudio /\ stopMark = 0
    /\ Len(frames) = 2 /\ Decoded(1) /\ ~Decoded(2)

C27_PartialMeansUserSpeaking ==
    last.op = "partial_transcript" => isUserSpeaking

\* C28: handleAudioChunk appends the frame to the queue (the loop it starts takes
\* it at once), starts a loop when isPlayingAudio is false, and leaves
\* streamingComplete, the latency fields, isUserSpeaking, isConnected, this.ws and
\* the socket unchanged.
C28_FrameArrivalKeepsControlState ==
    [][last'.op = "audio_chunk"
          => /\ streamingComplete' = streamingComplete
             /\ turnVars' = turnVars
             /\ connVars' = connVars /\ recVars' = recVars
             /\ currentAudioSource' = currentAudioSource /\ srcState' = srcState
             /\ \/ audioQueue' = Append(audioQueue, last'.id)
                \/ audioQueue' = audioQueue /\ loopFrame'[last'.id] = last'.id
                \/ ~hasAudioContext /\ audioQueue' = << >>
             /\ (~isPlayingAudio /\ hasAudioContext) => loopPc'[last'.id] # "none"
             /\ isPlayingAudio => loopPc' = loopPc]_vars
C28_Witness ==
    /\ last.op = "audio_chunk" /\ last.id >= 2 /\ streamingComplete
    /\ audioQueue # << >> /\ responseStartTime \in Clock

\* C29: a message with an unknown type, a `silence_warning` and a `latency_metric`
\* change no field of the manager, no socket, no loop and no source, and throw
\* nothing.
C29_UnknownTagsIgnored ==
    [][last'.op \in {"unknown", "silence_warning", "latency_metric"}
          => /\ connVars' = connVars /\ recVars' = recVars
             /\ playVars' = playVars /\ turnVars' = turnVars
             /\ thinkingShown' = thinkingShown
             /\ "exception" \notin emitted']_vars
C29_Witness ==
    /\ last.op = "unknown" /\ audioQueue # << >> /\ isPlayingAudio
    /\ \E s \in FrameIds : srcState[s] = "playing"

\* C30: the queue and the flag a timed arm leaves are those it computes from any
\* other values of lastSpeechEndTime and responseStartTime and any other clock
\* reading, and it touches no socket, loop, source or recorder; no other step
\* writes the two latency fields. Two runs fed the same events therefore go
\* through the same queues, flags, connection states and played units.
C30_LatencyIsTelemetryOnly ==
    [][/\ last'.op \in TimedEvents
            => /\ \A l2, r2 \in 0..MaxClock, n2 \in Clock :
                     LET other == TimedState(last'.op,
                                     [TelemetryState EXCEPT !.lset = l2, !.rst = r2], n2)
                     IN  audioQueue' = other.queue /\ streamingComplete' = other.complete
               /\ connVars' = connVars /\ recVars' = recVars
               /\ isPlayingAudio' = isPlayingAudio /\ loopPc' = loopPc
               /\ loopFrame' = loopFrame /\ srcState' = srcState /\ played' = played
       /\ last'.op \notin TimedEvents
            => /\ lastSpeechEndTime' = lastSpeechEndTime
               /\ responseStartTime' = responseStartTime]_vars
\* `audio_start` handled with lastSpeechEndTime set and frames queued.
C30_Witness ==
    /\ last.op = "audio_start" /\ "log:latency" \in emitted
    /\ lastSpeechEndTime \in Clock /\ responseStartTime \in Clock
    /\ audioQueue = << >> /\ Len(frames) >= 1

----------------------------------------------------------------------------
\* C31: the state the next handler finds holds every change of the handler
\* before it: after `interrupted`, `error` and `timeout` the whole of
\* stopAudioPlayback() (and of disconnect()), after `audio_start` the reset queue,
\* the cleared flag and the timestamp, after `audio_complete` the flag, after a
\* frame the frame queued or taken by the loop it started.
C31_HandlersRunToCompletion ==
    /\ last.op \in {"interrupted", "error", "timeout"}
          => /\ audioQueue = << >> /\ streamingComplete /\ ~isPlayingAudio
             /\ currentAudioSource = 0 /\ stopMark = Len(frames)
    /\ last.op = "interrupted" => (awaitingStart /\ ~thinkingShown)
    /\ last.op = "timeout"
          => (ws = 0 /\ ~isConnected /\ recorder # "recording" /\ sock[1] # "open")
    /\ last.op = "audio_start"
          => (audioQueue = << >> /\ ~streamingComplete /\ responseStartTime \in Clock
              /\ ~awaitingStart)
    /\ last.op = "audio_complete" => streamingComplete
    /\ last.op = "audio_chunk"
          => /\ Len(frames) = last.id
             /\ \/ last.id \in QueueSet
                \/ \E l \in FrameIds : loopPc[l] = "decode" /\ loopFrame[l] = last.id
                \/ ~hasAudioContext
C31_Witness ==
    /\ last.op = "interrupted" /\ Len(frames) = 3
    /\ \E s \in FrameIds : srcState[s] = "stopped"
    /\ \E l \in FrameIds : loopPc[l] = "play"

\* C32: once no socket is connecting or open (no event or frame can arrive any
\* more), eventually no loop is alive and isPlayingAudio is false.
ChannelSilent == \A s \in SockIds : sock[s] \notin {"connecting", "open"}
C32_LoopsTerminate ==
    ChannelSilent ~> (\A l \in FrameIds : loopPc[l] = "none") /\ ~isPlayingAudio

\* C33: while this.ws is an open socket and isConnected is true, the onclose of
\* another socket, one that disconnect() closed, leaves isConnected true and the
\* recorder as it was.
C33_LateCloseHarmless ==
    [][\A s \in SockIds :
          (OnClose(s) /\ sock[s] = "closing" /\ ws # 0 /\ ws # s
              /\ sock[ws] = "open" /\ isConnected)
             => (isConnected' /\ recorder' = recorder)]_vars

\* C34: whenever isConnected is true, this.ws is a socket and that socket is open;
\* the capture callback never sends on a null or connecting socket.
C34_ConnectedMeansOpenSocket ==
    /\ isConnected => (ws # 0 /\ sock[ws] = "open")
    /\ last.op = "dataavailable" => "exception" \notin emitted

\* C35: after disconnect() (this.ws is null) no inbound message changes a field of
\* the manager, a socket, the recorder, the queue, a loop or a source.
C35_NoEffectAfterDisconnect ==
    [][(ws = 0 /\ last'.op \in MessageTypes \cup {"audio_chunk"})
          => /\ connVars' = connVars /\ recVars' = recVars
             /\ playVars' = playVars /\ turnVars' = turnVars
             /\ thinkingShown' = thinkingShown]_vars

\* C36: isPlayingAudio is true exactly when an invocation of playAudioQueue is
\* alive.
C36_FlagMeansLoopAlive == isPlayingAudio <=> (LoopsAlive # {})

\* C37: currentAudioSource is non-null exactly while a source is audible, and
\* designates every audible source.
C37_CurrentSourceIsAudible ==
    /\ (currentAudioSource # 0) <=> (Audible # {})
    /\ Audible \subseteq {currentAudioSource}

\* The number of places received frame f is in: the queue, the decode of a loop,
\* a source made from it.
InQueue(f) == Cardinality({i \in 1..Len(audioQueue) : audioQueue[i] = f})
InDecode(f) == Cardinality({l \in FrameIds : loopPc[l] = "decode" /\ loopFrame[l] = f})
Places(f) == InQueue(f) + InDecode(f) + (IF srcState[f] # "none" THEN 1 ELSE 0)

\* C38: a frame is dequeued at most once and played at most once: it is in at most
\* one place (queued, in decode, made a source), no frame occurs twice in the
\* order of play, a source exists exactly for the frames played, and a frame not
\* yet received is nowhere.
C38_FrameAtMostOnce ==
    /\ \A f \in FrameIds : Places(f) <= 1
    /\ \A f \in FrameIds : f > Len(frames) => Places(f) = 0
    /\ \A i, j \in 1..Len(played) : i # j => played[i] # played[j]
    /\ PlayedSet = {f \in FrameIds : srcState[f] # "none"}
    /\ \A l \in FrameIds :
          loopPc[l] = "play" => srcState[loopFrame[l]] \in {"playing", "stopped"}
\* Three frames received and none pending: one played, one skipped after a failed
\* decode or discarded by a reset.
C38_Witness ==
    /\ Len(frames) = 3 /\ audioQueue = << >> /\ \A l \in FrameIds : loopPc[l] = "none"
    /\ \A s \in FrameIds : srcState[s] \in {"none", "ended"}
    /\ Len(played) = 2 /\ last.op = "decode_rejected"

====
